---- MODULE Spec2Model ----
(***************************************************************************)
(* git-herd: bounded-concurrency processing of the repositories found     *)
(* under a directory, by the worker-pool Manager (plain mode) and by the   *)
(* bubbletea Model (TUI mode).                                             *)
(***************************************************************************)
EXTENDS Integers, Sequences, FiniteSets, TLC

\* ------------------------------------------------------------------ bounds
MaxRepos == 3
MaxWorkers == 2
MaxPatterns == 2     \* length of config.DiscardFiles
MaxRuns == 2         \* ProcessRepo runs on one repository
MaxDepth == 2        \* depth of the scanned directory tree below the root
MaxGitDirs == 3      \* directories of the tree that contain .git

\* ------------------------------------------------------------ data model
\* What a repository on disk looks like to the processor.
RepoKinds == {"clean", "dirty", "broken"}

\* All descriptor lists a scan can return (one kind per repository found).
RepoLists == UNION {[1..n -> RepoKinds] : n \in 0..MaxRepos}

\* error values are modelled by the fragments of their message; nil is <<>>
NoError == <<>>
ErrOpen == <<"failed to open repository">>
ErrSkipped == <<"repository has uncommitted changes", "skipped">>
ErrFetchCancelled == <<"fetch failed", "context canceled">>
ErrPullCancelled == <<"pull failed", "context canceled">>
ErrOpenDiscard == <<"failed to open repository for discard">>
ErrFetchFailed == <<"fetch failed", "remote error">>
ErrPullFailed == <<"pull failed", "remote error">>

\* strings.Contains(result.Error.Error(), tok)
Contains(err, tok) == \E k \in DOMAIN err : err[k] = tok

\* strings.Contains on texts given as sequences of characters
HasSubstring(path, exclude) ==
    \E i \in 0..(Len(path) - Len(exclude)) : SubSeq(path, i + 1, i + Len(exclude)) = exclude

\* the fragment "skipped" is part of a message that quotes a text holding it
QuotedFragments(text) ==
    IF HasSubstring(text, <<"s", "k", "i", "p", "p", "e", "d">>) THEN <<"skipped">> ELSE <<>>

\* "failed to discard files: failed to discard <file>: ... (output: ...)"
ErrDiscard(file) == <<"failed to discard files">> \o QuotedFragments(file)
IsDiscardError(err) == err # <<>> /\ err[1] = "failed to discard files"

\* types.Config as Execute receives it
Configs ==
    [Workers : 0..MaxWorkers, PlainMode : BOOLEAN, Verbose : {FALSE},
     Operation : {"fetch"}, DryRun : {FALSE}, SkipDirty : {TRUE},
     DiscardFiles : {<<>>}, Timeout : {1}]

VARIABLES
    config,       \* types.Config
    pc,           \* position of Manager.Execute
    execErr,      \* what Execute returned: "none" (not yet), "nil", "scan", "failed"
    repos,        \* the descriptor list of the scan (kind of each repository)
    invoked,      \* history: number of ProcessRepo invocations per descriptor
    \* --- plain mode: processReposConcurrently / displayResults
    ctxDone,      \* the caller's context is cancelled or timed out
    gctxDone,     \* the errgroup's derived context was cancelled by the group
    gErr,         \* errgroup: first error returned by a worker
    submitted,    \* number of g.Go calls made by the loop
    wstate,       \* per descriptor: "idle", "running", "select", "returned"
    produced,     \* per descriptor: the value ProcessRepo returned
    resultChan,   \* buffered channel, capacity len(repos)
    chanClosed,
    allResults, successful, failed, skipped, total,
    \* --- TUI mode: tui.Model and the bubbletea event loop
    m,            \* the Model's fields
    mctxDone,     \* the Model's own context is cancelled
    scanCmd,      \* the scanRepos command is running
    cmds,         \* indices whose ProcessRepo closure is running
    msgs,         \* messages produced by commands, not yet given to Update
    quitPending,  \* a tea.Quit command was returned and not yet handled
    quitKeyed,    \* history: the quit key was handled
    \* --- the units checked on their own
    proc,         \* Processor.ProcessRepo run on one repository
    scan,         \* Scanner.FindRepos run on one directory tree
    load          \* config.LoadConfig run on one unmarshalled configuration

plainVars == <<ctxDone, gctxDone, gErr, submitted, wstate, produced, resultChan,
               chanClosed, allResults, successful, failed, skipped, total>>
tuiVars == <<m, mctxDone, scanCmd, cmds, msgs, quitPending, quitKeyed>>
mainVars == <<config, pc, execErr, repos, invoked, plainVars, tuiVars>>
auxVars == <<proc, scan, load>>
vars == <<mainVars, auxVars>>

N == Len(repos)

\* ------------------------------------------------------------- Processor
\* File paths and patterns are sequences of characters.
FileLog == <<"s", "k", "i", "p", "p", "e", "d", "/", "a", ".", "l">>   \* skipped/a.l
FileTxt == <<"b", ".", "t">>                \* b.t
ProcFiles == {FileLog, FileTxt}

\* patterns of config.DiscardFiles: a glob, a base name, a path
DiscardPatterns ==
    {<<"*", ".", "l">>, <<"b", ".", "t">>, FileLog}
PatternLists == UNION {[1..n -> DiscardPatterns] : n \in 0..MaxPatterns}

\* the orders in which a range over the status map can visit the files
FileOrders ==
    {o \in [1..Cardinality(ProcFiles) -> ProcFiles] :
        \A i, j \in DOMAIN o : i # j => o[i] # o[j]}

\* filepath.Base
RECURSIVE Base(_)
Base(path) ==
    IF \E k \in DOMAIN path : path[k] = "/"
       THEN Base(Tail(path))
       ELSE path

\* filepath.Match for patterns of literals, ? and *
RECURSIVE GlobMatch(_, _)
GlobMatch(pattern, name) ==
    IF pattern = <<>> THEN name = <<>>
    ELSE IF Head(pattern) = "*"
       THEN \E k \in 0..Len(name) :
               /\ \A j \in 1..k : name[j] # "/"
               /\ GlobMatch(Tail(pattern), SubSeq(name, k + 1, Len(name)))
    ELSE IF name = <<>> THEN FALSE
    ELSE /\ \/ Head(pattern) = Head(name)
            \/ Head(pattern) = "?" /\ Head(name) # "/"
         /\ GlobMatch(Tail(pattern), Tail(name))

\* discardFiles: the file matches some pattern (glob on the base name, or the
\* path or the base name equal to the pattern)
ShouldDiscard(patterns, file) ==
    \E k \in DOMAIN patterns :
        \/ GlobMatch(patterns[k], Base(file))
        \/ file = patterns[k]
        \/ Base(file) = patterns[k]

\* the files whose worktree or staging status is not Unmodified
ModifiedSet(d) == {f \in ProcFiles : d.files[f] # "unmodified"}

InOrder(order, set) == SelectSeq(order, LAMBDA f : f \in set)

\* the GitRepo the scanner hands to ProcessRepo
Descriptor ==
    [Error |-> NoError, Clean |-> FALSE, ModifiedFiles |-> <<>>, LastCommit |-> 0,
     Duration |-> 0]

\* the time the backend calls take, in ticks
AnalyzeTime == 1
DiscardTime == 1
OperationTime == 1

\* variant: a failure of the analysis is not recorded in the descriptor
AnalyzeRepoNoError(repo, d, fails, order) ==
    IF fails
       THEN [repo EXCEPT !.Duration = AnalyzeTime]
       ELSE [repo EXCEPT !.Duration = AnalyzeTime,
                         !.LastCommit = d.head,
                         !.Clean = (ModifiedSet(d) = {}),
                         !.ModifiedFiles = InOrder(order, ModifiedSet(d))]

\* Processor.AnalyzeRepo: on a failure only Error is set; the deferred function
\* stores the time the analysis took in Duration
AnalyzeRepo(repo, d, fails, order) ==
    IF fails
       THEN [repo EXCEPT !.Error = ErrOpen, !.Duration = AnalyzeTime]
       ELSE [repo EXCEPT !.Duration = AnalyzeTime,
                         !.LastCommit = d.head,
                         !.Clean = (ModifiedSet(d) = {}),
                         !.ModifiedFiles = InOrder(order, ModifiedSet(d))]

Discard(file) == [op |-> "discard", file |-> file]
Fetch == [op |-> "fetch"]
Pull == [op |-> "pull"]

\* discardFiles: git checkout HEAD -- file for each file to discard; the
\* checkout restores a tracked file and fails for a file HEAD does not have
RECURSIVE DiscardLoop(_, _, _)
DiscardLoop(discardedFiles, d, effects) ==
    IF discardedFiles = <<>>
       THEN [failed |-> FALSE, file |-> <<>>, disk |-> d, effects |-> effects]
       ELSE LET file == Head(discardedFiles) IN
            IF d.files[file] = "untracked"
               THEN [failed |-> TRUE, file |-> file, disk |-> d,
                     effects |-> effects \cup {Discard(file)}]
               ELSE DiscardLoop(Tail(discardedFiles),
                                [d EXCEPT !.files[file] = "unmodified"],
                                effects \cup {Discard(file)})

\* Processor.discardFiles
DiscardFiles(cfg, d, order) ==
    DiscardLoop(InOrder(order, {f \in ModifiedSet(d) : ShouldDiscard(cfg.DiscardFiles, f)}),
                d, {})

\* Processor.fetchRepo
FetchRepo(d, fault, cancelled) ==
    IF cancelled THEN [err |-> ErrFetchCancelled, disk |-> d]
    ELSE IF fault = "remote" THEN [err |-> ErrFetchFailed, disk |-> d]
    ELSE [err |-> NoError, disk |-> [d EXCEPT !.fetched = TRUE]]

\* Processor.pullRepo: fetch and fast-forward; fails on unstaged changes
PullRepo(d, fault, cancelled) ==
    IF cancelled THEN [err |-> ErrPullCancelled, disk |-> d]
    ELSE IF fault = "remote" THEN [err |-> ErrPullFailed, disk |-> d]
    ELSE IF ~d.behind THEN [err |-> NoError, disk |-> [d EXCEPT !.fetched = TRUE]]
    ELSE IF \E f \in ProcFiles : d.files[f] = "modified"
       THEN [err |-> ErrPullFailed, disk |-> [d EXCEPT !.fetched = TRUE]]
    ELSE [err |-> NoError,
          disk |-> [d EXCEPT !.fetched = TRUE, !.behind = FALSE, !.head = @ + 1]]

Outcome(repo, d, effects) == [result |-> repo, disk |-> d, effects |-> effects]

\* variant: the dry-run return comes before the dirty gate
DispatchDryRunFirst(cfg, repo, d, effects, fault, cancelled) ==
    IF cfg.DryRun THEN Outcome(repo, d, effects)
    ELSE IF cfg.SkipDirty /\ ~repo.Clean /\ cfg.Operation # "scan"
       THEN Outcome([repo EXCEPT !.Error = ErrSkipped], d, effects)
    ELSE IF cfg.Operation = "fetch"
       THEN LET f == FetchRepo(d, fault, cancelled) IN
            Outcome(IF f.err # NoError THEN [repo EXCEPT !.Error = f.err] ELSE repo,
                    f.disk, effects \cup {Fetch})
    ELSE IF cfg.Operation = "pull"
       THEN LET f == PullRepo(d, fault, cancelled) IN
            Outcome(IF f.err # NoError THEN [repo EXCEPT !.Error = f.err] ELSE repo,
                    f.disk, effects \cup {Pull})
    ELSE Outcome(repo, d, effects)

\* variant: the dry-run flag is not looked at
DispatchNoDryRun(cfg, repo, d, effects, fault, cancelled) ==
    IF cfg.SkipDirty /\ ~repo.Clean /\ cfg.Operation # "scan"
       THEN Outcome([repo EXCEPT !.Error = ErrSkipped], d, effects)
    ELSE IF cfg.Operation = "fetch"
       THEN LET f == FetchRepo(d, fault, cancelled) IN
            Outcome(IF f.err # NoError THEN [repo EXCEPT !.Error = f.err] ELSE repo,
                    f.disk, effects \cup {Fetch})
    ELSE IF cfg.Operation = "pull"
       THEN LET f == PullRepo(d, fault, cancelled) IN
            Outcome(IF f.err # NoError THEN [repo EXCEPT !.Error = f.err] ELSE repo,
                    f.disk, effects \cup {Pull})
    ELSE Outcome(repo, d, effects)

\* ProcessRepo from the dirty gate on: gate, dry run, open, dispatch
Dispatch(cfg, repo, d, effects, fault, cancelled) ==
    IF cfg.SkipDirty /\ ~repo.Clean /\ cfg.Operation # "scan"
       THEN Outcome([repo EXCEPT !.Error = ErrSkipped], d, effects)
    ELSE IF cfg.DryRun THEN Outcome(repo, d, effects)
    ELSE IF fault = "openDispatch"
       THEN Outcome([repo EXCEPT !.Error = ErrOpen], d, effects)
    ELSE IF cfg.Operation = "fetch"
       THEN LET f == FetchRepo(d, fault, cancelled) IN
            Outcome(IF f.err # NoError THEN [repo EXCEPT !.Error = f.err] ELSE repo,
                    f.disk, effects \cup {Fetch})
    ELSE IF cfg.Operation = "pull"
       THEN LET f == PullRepo(d, fault, cancelled) IN
            Outcome(IF f.err # NoError THEN [repo EXCEPT !.Error = f.err] ELSE repo,
                    f.disk, effects \cup {Pull})
    ELSE Outcome(repo, d, effects)

\* variant: a failure of discardFiles does not end the run
ProcessRepoRunIgnoreDiscardError(cfg, d, fault, cancelled, order, discardOrder) ==
    LET first == AnalyzeRepo(Descriptor, d, fault = "analyze", order) IN
    IF first.Error # NoError THEN Outcome(first, d, {})
    ELSE IF Len(cfg.DiscardFiles) > 0 /\ ~first.Clean
       THEN IF fault = "openDiscard"
               THEN Outcome([first EXCEPT !.Error = ErrOpenDiscard], d, {})
               ELSE LET dis == DiscardFiles(cfg, d, discardOrder) IN
                    Dispatch(cfg,
                             AnalyzeRepo(first, dis.disk, fault = "reanalyze", order),
                             dis.disk, dis.effects, fault, cancelled)
       ELSE Dispatch(cfg, first, d, {}, fault, cancelled)

\* variant: the repository is not analysed again after the discard
ProcessRepoRunNoReanalysis(cfg, d, fault, cancelled, order, discardOrder) ==
    LET first == AnalyzeRepo(Descriptor, d, fault = "analyze", order) IN
    IF first.Error # NoError THEN Outcome(first, d, {})
    ELSE IF Len(cfg.DiscardFiles) > 0 /\ ~first.Clean
       THEN LET dis == DiscardFiles(cfg, d, discardOrder) IN
            IF dis.failed
               THEN Outcome([first EXCEPT !.Error = ErrDiscard(dis.file)], dis.disk, dis.effects)
               ELSE Dispatch(cfg, first, dis.disk, dis.effects, fault, cancelled)
       ELSE Dispatch(cfg, first, d, {}, fault, cancelled)

\* Processor.ProcessRepo on the repository state d: the result, the state of
\* the repository after it and the commands it executed. fault names the
\* backend call that fails; order and discardOrder are the map iteration
\* orders of AnalyzeRepo and discardFiles.
ProcessRepoRun(cfg, d, fault, cancelled, order, discardOrder) ==
    LET first == AnalyzeRepo(Descriptor, d, fault = "analyze", order) IN
    IF first.Error # NoError THEN Outcome(first, d, {})
    ELSE IF Len(cfg.DiscardFiles) > 0 /\ ~first.Clean
       THEN IF fault = "openDiscard"
               THEN Outcome([first EXCEPT !.Error = ErrOpenDiscard], d, {})
               ELSE LET dis == DiscardFiles(cfg, d, discardOrder) IN
                    IF dis.failed
                       THEN Outcome([first EXCEPT !.Error = ErrDiscard(dis.file)], dis.disk, dis.effects)
                       ELSE Dispatch(cfg,
                                     AnalyzeRepo(first, dis.disk, fault = "reanalyze", order),
                                     dis.disk, dis.effects, fault, cancelled)
       ELSE Dispatch(cfg, first, d, {}, fault, cancelled)

\* time.Since(start) when ProcessRepo returns: the time of the analyses, the
\* checkouts and the fetch or pull it made. The deferred function of
\* ProcessRepo stores it in the local repo after the value to return was
\* copied, so the result keeps the Duration AnalyzeRepo wrote.
ProcessRepoElapsed(cfg, d, fault, cancelled, order, discardOrder) ==
    LET first == AnalyzeRepo(Descriptor, d, fault = "analyze", order)
        out == ProcessRepoRun(cfg, d, fault, cancelled, order, discardOrder)
        discards == Cardinality({e \in out.effects : e.op = "discard"})
        operations == Cardinality(out.effects \cap {Fetch, Pull})
        reanalysed == /\ first.Error = NoError
                      /\ Len(cfg.DiscardFiles) > 0 /\ ~first.Clean
                      /\ fault # "openDiscard"
                      /\ ~IsDiscardError(out.result.Error)
    IN AnalyzeTime + discards * DiscardTime
          + (IF reanalysed THEN AnalyzeTime ELSE 0) + operations * OperationTime

\* the repository state of each kind of the descriptor lists
NoFiles == [f \in ProcFiles |-> "unmodified"]
DiskOfKind(kind) ==
    [files |-> IF kind = "dirty" THEN [NoFiles EXCEPT ![FileTxt] = "modified"] ELSE NoFiles,
     behind |-> FALSE, fetched |-> FALSE, head |-> 0]

\* Processor.ProcessRepo as the front-ends use it: the Error of the result
ProcessRepo(cfg, kind, cancelled) ==
    LET order == CHOOSE o \in FileOrders : TRUE IN
    ProcessRepoRun(cfg, DiskOfKind(kind), IF kind = "broken" THEN "analyze" ELSE "none",
                   cancelled, order, order).result.Error

Result(i, err) == [id |-> i, Error |-> err]

\* ------------------------------------------------------------------ Init
NewModel ==
    [phase |-> "initializing", scanning |-> TRUE, processing |-> FALSE,
     done |-> FALSE, err |-> "nil", repos |-> <<>>, processed |-> 0,
     results |-> <<>>, nextIndex |-> 0]

\* the fields of a run that has not started
Fresh ==
    /\ execErr = "none"
    /\ repos = <<>>
    /\ invoked = [i \in 1..MaxRepos |-> 0]
    /\ ctxDone = FALSE
    /\ gctxDone = FALSE
    /\ gErr = FALSE
    /\ submitted = 0
    /\ wstate = [i \in 1..MaxRepos |-> "idle"]
    /\ produced = [i \in 1..MaxRepos |-> NoError]
    /\ resultChan = <<>>
    /\ chanClosed = FALSE
    /\ allResults = <<>>
    /\ successful = 0 /\ failed = 0 /\ skipped = 0 /\ total = 0
    /\ m = NewModel
    /\ mctxDone = FALSE
    /\ scanCmd = FALSE
    /\ cmds = {}
    /\ msgs = {}
    /\ quitPending = FALSE
    /\ quitKeyed = FALSE

\* no unit run
ProcIdle == [cfg |-> <<>>, disk |-> <<>>, disk0 |-> <<>>, fault |-> "none",
             cancelled |-> FALSE, runs |-> <<>>]
ScanIdle == [cfg |-> <<>>, rootPath |-> <<>>, gitDirs |-> {}, out |-> <<>>,
             done |-> FALSE]
LoadIdle == [input |-> <<>>, config |-> <<>>, err |-> <<>>, done |-> FALSE]

Init ==
    /\ config \in Configs
    /\ pc = "start"
    /\ Fresh
    /\ proc = ProcIdle
    /\ scan = ScanIdle
    /\ load = LoadIdle

\* ------------------------------------------------------- Manager.Execute
\* Execute: the TUI unless plain mode or verbose, else plain mode.
Execute ==
    /\ pc = "start"
    /\ IF ~config.PlainMode /\ ~config.Verbose
          THEN pc' = "tui" /\ scanCmd' = TRUE      \* tea.NewProgram(model).Run(): Init()
          ELSE pc' = "plain_scan" /\ scanCmd' = scanCmd
    /\ UNCHANGED <<auxVars, config, execErr, repos, invoked, plainVars, m, mctxDone, cmds,
                   msgs, quitPending, quitKeyed>>

\* p.Run() returns an error before any message was handled: fall back to plain mode.
TuiRunError ==
    /\ pc = "tui" /\ scanCmd /\ m = NewModel /\ ~quitPending
    /\ pc' = "plain_scan"
    /\ scanCmd' = FALSE
    /\ UNCHANGED <<auxVars, config, execErr, repos, invoked, plainVars, m, mctxDone, cmds,
                   msgs, quitPending, quitKeyed>>

\* The caller's context is cancelled (SIGINT/SIGTERM) or its deadline elapses,
\* while Execute runs either front-end.
CancelCtx ==
    /\ pc \in {"tui", "plain_scan", "submit", "display"}
    /\ ~ctxDone
    /\ ctxDone' = TRUE
    /\ UNCHANGED <<auxVars, config, pc, execErr, repos, invoked, gctxDone, gErr, submitted,
                   wstate, produced, resultChan, chanClosed, allResults, successful,
                   failed, skipped, total, tuiVars>>

\* variant: the descriptors collected before the error are processed
PlainScanErrorUsesPartial ==
    /\ pc = "plain_scan"
    /\ \E found \in RepoLists :
          /\ Len(found) > 0
          /\ repos' = found
    /\ pc' = "submit"
    /\ execErr' = "scan"
    /\ UNCHANGED <<auxVars, config, invoked, plainVars, tuiVars>>

\* executeInPlainMode: FindRepos fails (filesystem error, or the context is
\* done); the list it returns with the error is dropped.
PlainScanError ==
    /\ pc = "plain_scan"
    /\ pc' = "returned"
    /\ execErr' = "scan"
    /\ UNCHANGED <<auxVars, config, repos, invoked, plainVars, tuiVars>>

\* executeInPlainMode: FindRepos returns found; no repositories returns nil,
\* otherwise processReposConcurrently starts its submission loop.
PlainScanOk(found) ==
    /\ pc = "plain_scan"
    /\ ~ctxDone
    /\ repos' = found
    /\ IF Len(found) = 0
          THEN pc' = "returned" /\ execErr' = "nil"
          ELSE pc' = "submit" /\ execErr' = execErr
    /\ UNCHANGED <<auxVars, config, invoked, plainVars, tuiVars>>

\* ------------------------------------- Manager.processReposConcurrently
\* the context the workers see: errgroup.WithContext(ctx)
GroupCtxDone == ctxDone \/ gctxDone

\* goroutines of the group that have not returned (they hold a token of g.sem)
Active == {i \in 1..N : wstate[i] \in {"running", "select"}}

\* ProcessRepo invocations that have started and not returned
InFlight == {i \in 1..N : wstate[i] = "running"}

\* variant: the result channel is unbuffered
CapacityUnbuffered(n) == 0

\* make(chan types.GitRepo, len(repos))
Capacity(n) == n

\* variant: the group is never given a limit
SemAcquireNoLimit(limit, active) == TRUE

\* g.SetLimit(n): n < 0 is no limit, otherwise at most n active goroutines
SemAcquire(limit, active) == limit < 0 \/ active < limit

\* g.Go(...) for the next descriptor of the range loop: blocks for a token
Submit ==
    /\ pc = "submit"
    /\ submitted < N
    /\ SemAcquire(config.Workers, Cardinality(Active))
    /\ submitted' = submitted + 1
    /\ wstate' = [wstate EXCEPT ![submitted + 1] = "running"]
    /\ invoked' = [invoked EXCEPT ![submitted + 1] = @ + 1]
    /\ UNCHANGED <<auxVars, config, pc, execErr, repos, ctxDone, gctxDone, gErr, produced,
                   resultChan, chanClosed, allResults, successful, failed, skipped,
                   total, tuiVars>>

\* the range loop is over: the collector goroutine starts, displayResults is called
StartCollect ==
    /\ pc = "submit"
    /\ submitted = N
    /\ pc' = "display"
    /\ total' = N
    /\ UNCHANGED <<auxVars, config, execErr, repos, invoked, ctxDone, gctxDone, gErr, submitted,
                   wstate, produced, resultChan, chanClosed, allResults, successful,
                   failed, skipped, tuiVars>>

\* worker: m.processor.ProcessRepo(ctx, repo) returns
WorkerProcess(i) ==
    /\ i \in 1..N
    /\ wstate[i] = "running"
    /\ produced' = [produced EXCEPT ![i] = ProcessRepo(config, repos[i], GroupCtxDone)]
    /\ wstate' = [wstate EXCEPT ![i] = "select"]
    /\ UNCHANGED <<auxVars, config, pc, execErr, repos, invoked, ctxDone, gctxDone, gErr,
                   submitted, resultChan, chanClosed, allResults, successful, failed,
                   skipped, total, tuiVars>>

\* variant: the worker returns without its result reaching the channel
WorkerSendLost(i) ==
    /\ i \in 1..N
    /\ wstate[i] = "select"
    /\ ~chanClosed
    /\ wstate' = [wstate EXCEPT ![i] = "returned"]
    /\ UNCHANGED <<auxVars, config, pc, execErr, repos, invoked, ctxDone, gctxDone, gErr,
                   submitted, produced, resultChan, chanClosed, allResults, successful,
                   failed, skipped, total, tuiVars>>

\* variant: the worker returns the repository's error to the group
WorkerSendFailFast(i) ==
    /\ i \in 1..N
    /\ wstate[i] = "select"
    /\ ~chanClosed
    /\ Len(resultChan) < Capacity(N)
    /\ resultChan' = Append(resultChan, Result(i, produced[i]))
    /\ wstate' = [wstate EXCEPT ![i] = "returned"]
    /\ gErr' = (gErr \/ produced[i] # NoError)
    /\ gctxDone' = (gctxDone \/ produced[i] # NoError)
    /\ UNCHANGED <<auxVars, config, pc, execErr, repos, invoked, ctxDone, submitted, produced,
                   chanClosed, allResults, successful, failed, skipped, total, tuiVars>>

\* worker: select case resultChan <- processedRepo; return nil
WorkerSend(i) ==
    /\ i \in 1..N
    /\ wstate[i] = "select"
    /\ ~chanClosed
    /\ Len(resultChan) < Capacity(N)
    /\ resultChan' = Append(resultChan, Result(i, produced[i]))
    /\ wstate' = [wstate EXCEPT ![i] = "returned"]
    /\ UNCHANGED <<auxVars, config, pc, execErr, repos, invoked, ctxDone, gctxDone, gErr,
                   submitted, produced, chanClosed, allResults, successful, failed,
                   skipped, total, tuiVars>>

\* worker: select case <-ctx.Done(); return ctx.Err(): the group records the
\* first error and cancels its context
WorkerCtxDone(i) ==
    /\ i \in 1..N
    /\ wstate[i] = "select"
    /\ GroupCtxDone
    /\ wstate' = [wstate EXCEPT ![i] = "returned"]
    /\ gErr' = TRUE
    /\ gctxDone' = TRUE
    /\ UNCHANGED <<auxVars, config, pc, execErr, repos, invoked, ctxDone, submitted, produced,
                   resultChan, chanClosed, allResults, successful, failed, skipped,
                   total, tuiVars>>

\* variant: the collector closes the channel without waiting for the group
CollectorCloseNoWait ==
    /\ pc = "display"
    /\ ~chanClosed
    /\ chanClosed' = TRUE
    /\ gctxDone' = TRUE
    /\ UNCHANGED <<auxVars, config, pc, execErr, repos, invoked, ctxDone, gErr, submitted,
                   wstate, produced, resultChan, allResults, successful, failed,
                   skipped, total, tuiVars>>

\* collector goroutine: g.Wait() returns (it cancels the group context), then
\* the deferred close(resultChan)
CollectorClose ==
    /\ pc = "display"
    /\ ~chanClosed
    /\ \A i \in 1..N : wstate[i] = "returned"
    /\ chanClosed' = TRUE
    /\ gctxDone' = TRUE
    /\ UNCHANGED <<auxVars, config, pc, execErr, repos, invoked, ctxDone, gErr, submitted,
                   wstate, produced, resultChan, allResults, successful, failed,
                   skipped, total, tuiVars>>

\* ----------------------------------------------- Manager.displayResults
\* the counter a result is added to
Classify(result) ==
    IF result.Error # NoError
       THEN (IF Contains(result.Error, "skipped") THEN "skipped" ELSE "failed")
       ELSE "successful"

\* one iteration of: for result := range resultChan
DisplayReceive ==
    /\ pc = "display"
    /\ resultChan # <<>>
    /\ LET result == Head(resultChan) IN
          /\ allResults' = Append(allResults, result)
          /\ successful' = successful + (IF Classify(result) = "successful" THEN 1 ELSE 0)
          /\ failed' = failed + (IF Classify(result) = "failed" THEN 1 ELSE 0)
          /\ skipped' = skipped + (IF Classify(result) = "skipped" THEN 1 ELSE 0)
    /\ resultChan' = Tail(resultChan)
    /\ UNCHANGED <<auxVars, config, pc, execErr, repos, invoked, ctxDone, gctxDone, gErr,
                   submitted, wstate, produced, chanClosed, total, tuiVars>>

\* the channel is closed and drained: the summary is printed, displayResults returns
DisplayReturn ==
    /\ pc = "display"
    /\ resultChan = <<>>
    /\ chanClosed
    /\ pc' = "returned"
    /\ execErr' = IF failed > 0 THEN "failed" ELSE "nil"
    /\ UNCHANGED <<auxVars, config, repos, invoked, plainVars, tuiVars>>

\* -------------------------------------------------------------- tui.Model
ReposFoundMsg(found) == [type |-> "reposFoundMsg", repos |-> found]
RepoProcessedMsg(result) == [type |-> "repoProcessedMsg", result |-> result]
ProcessingDoneMsg(err) == [type |-> "processingDoneMsg", err |-> err]

\* variant: processNextRepo advances nextIndex by two
NextRepoModelSkip(mm) ==
    IF mm.nextIndex < Len(mm.repos) THEN [mm EXCEPT !.nextIndex = @ + 2] ELSE mm

\* variant: processNextRepo does not advance nextIndex
NextRepoModelStuck(mm) == mm

\* Model.processNextRepo: the index captured by the returned command (none if
\* every descriptor is dispatched) and the Model after it
\* variant: the descriptors are taken from the end of the list
NextRepoCmdReversed(mm) ==
    IF mm.nextIndex < Len(mm.repos) THEN {Len(mm.repos) - 1 - mm.nextIndex} ELSE {}

NextRepoCmd(mm) == IF mm.nextIndex < Len(mm.repos) THEN {mm.nextIndex} ELSE {}
NextRepoModel(mm) ==
    IF mm.nextIndex < Len(mm.repos) THEN [mm EXCEPT !.nextIndex = @ + 1] ELSE mm

\* variant: the initial batch is one larger than the worker count
WorkerCountOff(workers) == IF workers <= 0 THEN 1 ELSE workers + 1

\* Model.processRepos: workerCount <= 0 is taken as 1
WorkerCount(workers) == IF workers <= 0 THEN 1 ELSE workers

\* variant: only one command is launched on entry to processing
ProcessReposLoopOne(i, workerCount, mm, issued) ==
    [model |-> IF mm.nextIndex < Len(mm.repos) THEN [mm EXCEPT !.nextIndex = @ + 1] ELSE mm,
     cmds |-> IF mm.nextIndex < Len(mm.repos) THEN {mm.nextIndex} ELSE {}]

\* Model.processRepos: the loop launching the initial batch
RECURSIVE ProcessReposLoop(_, _, _, _)
ProcessReposLoop(i, workerCount, mm, issued) ==
    IF i < workerCount /\ mm.nextIndex < Len(mm.repos)
       THEN ProcessReposLoop(i + 1, workerCount, NextRepoModel(mm),
                             issued \cup NextRepoCmd(mm))
       ELSE [model |-> mm, cmds |-> issued]

\* the commands of indices idxs start to run: one ProcessRepo invocation each
Started(idxs) == [i \in 1..MaxRepos |-> IF (i - 1) \in idxs THEN invoked[i] + 1 ELSE invoked[i]]

\* the Model's context reaches its deadline (NewModel: config.Timeout > 0)
ModelDeadline ==
    /\ pc = "tui"
    /\ config.Timeout > 0
    /\ ~mctxDone
    /\ mctxDone' = TRUE
    /\ UNCHANGED <<auxVars, config, pc, execErr, repos, invoked, plainVars, m, scanCmd, cmds,
                   msgs, quitPending, quitKeyed>>

\* Model.scanRepos command: FindRepos(m.ctx, ...) succeeds
ScanCmdOk(found) ==
    /\ pc = "tui"
    /\ scanCmd
    /\ ~mctxDone
    /\ scanCmd' = FALSE
    /\ msgs' = msgs \cup {ReposFoundMsg(found)}
    /\ UNCHANGED <<auxVars, config, pc, execErr, repos, invoked, plainVars, m, mctxDone, cmds,
                   quitPending, quitKeyed>>

\* Model.scanRepos command: FindRepos fails
ScanCmdError ==
    /\ pc = "tui"
    /\ scanCmd
    /\ scanCmd' = FALSE
    /\ msgs' = msgs \cup {ProcessingDoneMsg("scan")}
    /\ UNCHANGED <<auxVars, config, pc, execErr, repos, invoked, plainVars, m, mctxDone, cmds,
                   quitPending, quitKeyed>>

\* variant: every command processes the first descriptor
RunCmdFirstRepo(idx) ==
    /\ pc = "tui"
    /\ idx \in cmds
    /\ cmds' = cmds \ {idx}
    /\ msgs' = msgs \cup
          {RepoProcessedMsg(Result(idx + 1, ProcessRepo(config, m.repos[1], mctxDone)))}
    /\ UNCHANGED <<auxVars, config, pc, execErr, repos, invoked, plainVars, m, mctxDone, scanCmd,
                   quitPending, quitKeyed>>

\* the command returned by processNextRepo: ProcessRepo(m.ctx, m.repos[idx]) returns
RunCmd(idx) ==
    /\ pc = "tui"
    /\ idx \in cmds
    /\ cmds' = cmds \ {idx}
    /\ msgs' = msgs \cup
          {RepoProcessedMsg(Result(idx + 1, ProcessRepo(config, m.repos[idx + 1], mctxDone)))}
    /\ UNCHANGED <<auxVars, config, pc, execErr, repos, invoked, plainVars, m, mctxDone, scanCmd,
                   quitPending, quitKeyed>>

\* Update, case tea.KeyMsg "ctrl+c", "q"
UpdateQuitKey ==
    /\ pc = "tui"
    /\ mctxDone' = TRUE
    /\ quitPending' = TRUE
    /\ quitKeyed' = TRUE
    /\ UNCHANGED <<auxVars, config, pc, execErr, repos, invoked, plainVars, m, scanCmd, cmds,
                   msgs>>

\* variant: an empty descriptor list is handed to processRepos like any other
UpdateReposFoundNoEmptyCase(msg) ==
    /\ pc = "tui"
    /\ msg \in msgs /\ msg.type = "reposFoundMsg"
    /\ LET m1 == [m EXCEPT !.repos = msg.repos, !.scanning = FALSE,
                           !.processing = TRUE, !.phase = "processing",
                           !.nextIndex = 0]
           batch == ProcessReposLoop(0, WorkerCount(config.Workers), m1, {})
       IN /\ m' = batch.model
          /\ cmds' = cmds \cup batch.cmds
          /\ invoked' = Started(batch.cmds)
          /\ msgs' = IF batch.cmds = {}
                        THEN (msgs \ {msg}) \cup {ProcessingDoneMsg("nil")}
                        ELSE msgs \ {msg}
          /\ UNCHANGED quitPending
    /\ UNCHANGED <<auxVars, config, pc, execErr, repos, plainVars, mctxDone, scanCmd, quitKeyed>>

\* Update, case reposFoundMsg
UpdateReposFound(msg) ==
    /\ pc = "tui"
    /\ msg \in msgs /\ msg.type = "reposFoundMsg"
    /\ LET m1 == [m EXCEPT !.repos = msg.repos, !.scanning = FALSE,
                           !.processing = TRUE, !.phase = "processing",
                           !.nextIndex = 0]
           batch == ProcessReposLoop(0, WorkerCount(config.Workers), m1, {})
       IN IF Len(m1.repos) = 0
             THEN /\ m' = [m1 EXCEPT !.done = TRUE, !.phase = "complete"]
                  /\ quitPending' = TRUE
                  /\ msgs' = msgs \ {msg}
                  /\ UNCHANGED <<cmds, invoked>>
             ELSE /\ m' = batch.model
                  /\ cmds' = cmds \cup batch.cmds
                  /\ invoked' = Started(batch.cmds)
                  /\ msgs' = IF batch.cmds = {}
                                THEN (msgs \ {msg}) \cup {ProcessingDoneMsg("nil")}
                                ELSE msgs \ {msg}
                  /\ UNCHANGED quitPending
    /\ UNCHANGED <<auxVars, config, pc, execErr, repos, plainVars, mctxDone, scanCmd, quitKeyed>>

\* variant: a handled result does not dispatch the next descriptor
UpdateRepoProcessedNoNext(msg) ==
    /\ pc = "tui"
    /\ msg \in msgs /\ msg.type = "repoProcessedMsg"
    /\ msgs' = msgs \ {msg}
    /\ LET m1 == [m EXCEPT !.results = Append(@, msg.result), !.processed = @ + 1]
       IN IF m1.processed >= Len(m1.repos)
             THEN /\ m' = [m1 EXCEPT !.processing = FALSE, !.done = TRUE,
                                     !.phase = "complete"]
                  /\ quitPending' = TRUE
                  /\ UNCHANGED <<cmds, invoked>>
             ELSE /\ m' = m1
                  /\ UNCHANGED <<cmds, invoked, quitPending>>
    /\ UNCHANGED <<auxVars, config, pc, execErr, repos, plainVars, mctxDone, scanCmd, quitKeyed>>

\* Update, case repoProcessedMsg
UpdateRepoProcessed(msg) ==
    /\ pc = "tui"
    /\ msg \in msgs /\ msg.type = "repoProcessedMsg"
    /\ msgs' = msgs \ {msg}
    /\ LET m1 == [m EXCEPT !.results = Append(@, msg.result), !.processed = @ + 1]
       IN IF m1.processed >= Len(m1.repos)
             THEN /\ m' = [m1 EXCEPT !.processing = FALSE, !.done = TRUE,
                                     !.phase = "complete"]
                  /\ quitPending' = TRUE
                  /\ UNCHANGED <<cmds, invoked>>
             ELSE /\ m' = NextRepoModel(m1)
                  /\ cmds' = cmds \cup NextRepoCmd(m1)
                  /\ invoked' = Started(NextRepoCmd(m1))
                  /\ UNCHANGED quitPending
    /\ UNCHANGED <<auxVars, config, pc, execErr, repos, plainVars, mctxDone, scanCmd, quitKeyed>>

\* Update, case processingDoneMsg
UpdateProcessingDone(msg) ==
    /\ pc = "tui"
    /\ msg \in msgs /\ msg.type = "processingDoneMsg"
    /\ msgs' = msgs \ {msg}
    /\ m' = [m EXCEPT !.processing = FALSE, !.done = TRUE, !.phase = "complete",
                      !.err = msg.err]
    /\ quitPending' = TRUE
    /\ UNCHANGED <<auxVars, config, pc, execErr, repos, invoked, plainVars, mctxDone, scanCmd,
                   cmds, quitKeyed>>

\* the event loop handles the QuitMsg of tea.Quit: p.Run() returns nil, and so
\* does Execute
HandleQuit ==
    /\ pc = "tui"
    /\ quitPending
    /\ quitPending' = FALSE
    /\ pc' = "returned"
    /\ execErr' = "nil"
    /\ UNCHANGED <<auxVars, config, repos, invoked, plainVars, m, mctxDone, scanCmd, cmds, msgs,
                   quitKeyed>>

\* ------------------------------------------------------------------ Next
Next ==
    \/ Execute
    \/ TuiRunError
    \/ CancelCtx
    \/ PlainScanError
    \/ \E found \in RepoLists : PlainScanOk(found)
    \/ Submit
    \/ StartCollect
    \/ \E i \in 1..MaxRepos : WorkerProcess(i)
    \/ \E i \in 1..MaxRepos : WorkerSend(i)
    \/ \E i \in 1..MaxRepos : WorkerCtxDone(i)
    \/ CollectorClose
    \/ DisplayReceive
    \/ DisplayReturn
    \/ ModelDeadline
    \/ \E found \in RepoLists : ScanCmdOk(found)
    \/ ScanCmdError
    \/ \E idx \in 0..(MaxRepos - 1) : RunCmd(idx)
    \/ UpdateQuitKey
    \/ \E msg \in msgs : UpdateReposFound(msg)
    \/ \E msg \in msgs : UpdateRepoProcessed(msg)
    \/ \E msg \in msgs : UpdateProcessingDone(msg)
    \/ HandleQuit

Spec == Init /\ [][Next]_vars

\* -------------------------------------------- the front-ends, each scheduled
\* Plain mode: the steps of Execute, of the workers and of the collector
PlainProgress ==
    \/ Execute
    \/ PlainScanError
    \/ \E found \in RepoLists : PlainScanOk(found)
    \/ Submit
    \/ StartCollect
    \/ \E i \in 1..MaxRepos : WorkerProcess(i)
    \/ \E i \in 1..MaxRepos : WorkerSend(i)
    \/ \E i \in 1..MaxRepos : WorkerCtxDone(i)
    \/ CollectorClose
    \/ DisplayReceive
    \/ DisplayReturn

PlainInit == Init /\ (config.PlainMode \/ config.Verbose)

PlainNext == PlainProgress \/ CancelCtx

\* every goroutine that can take a step is eventually scheduled and every
\* ProcessRepo call returns; the cancellation may or may not come
SpecPlainLive == PlainInit /\ [][PlainNext]_vars /\ WF_vars(PlainProgress)

\* TUI mode: the commands and the Updates of the event loop
TuiProgress ==
    \/ Execute
    \/ \E found \in RepoLists : ScanCmdOk(found)
    \/ ScanCmdError
    \/ \E idx \in 0..(MaxRepos - 1) : RunCmd(idx)
    \/ \E msg \in msgs : UpdateReposFound(msg)
    \/ \E msg \in msgs : UpdateRepoProcessed(msg)
    \/ \E msg \in msgs : UpdateProcessingDone(msg)
    \/ HandleQuit

TuiInit == Init /\ ~config.PlainMode /\ ~config.Verbose

TuiNext == TuiProgress \/ TuiRunError \/ ModelDeadline \/ UpdateQuitKey

\* every command returns its message and the event loop handles every
\* message; the quit key and the deadline may or may not come
SpecTuiLive == TuiInit /\ [][TuiNext]_vars /\ WF_vars(TuiProgress)

\* --------------------------------------- Processor.ProcessRepo on its own
\* Config as the Processor reads it
ProcConfigs ==
    [Operation : {"fetch", "pull", "scan"}, DryRun : BOOLEAN, SkipDirty : BOOLEAN,
     DiscardFiles : PatternLists]

\* the states of a repository: the status of each file, whether the remote
\* has commits the branch lacks, the commit of HEAD
Disks ==
    [files : [ProcFiles -> {"unmodified", "modified", "untracked"}],
     behind : BOOLEAN, fetched : {FALSE}, head : {0}]

\* the backend call that fails, if any
Faults == {"none", "analyze", "openDiscard", "reanalyze", "openDispatch", "remote"}

DefaultMain == CHOOSE c \in Configs : c.Workers = 1 /\ c.PlainMode

ProcInit ==
    /\ config = DefaultMain
    /\ pc = "unit"
    /\ Fresh
    /\ scan = ScanIdle
    /\ load = LoadIdle
    /\ \E cfg \in ProcConfigs, d \in Disks, fault \in Faults, cancelled \in BOOLEAN :
          proc = [cfg |-> cfg, disk |-> d, disk0 |-> d, fault |-> fault,
                  cancelled |-> cancelled, runs |-> <<>>]

\* one call of ProcessRepo on the repository as the previous call left it
ProcessRepoCall ==
    /\ pc = "unit"
    /\ Len(proc.runs) < MaxRuns
    /\ \E order \in FileOrders, discardOrder \in FileOrders :
          LET out == ProcessRepoRun(proc.cfg, proc.disk, proc.fault, proc.cancelled,
                                    order, discardOrder)
          IN proc' = [proc EXCEPT !.disk = out.disk,
                                  !.runs = Append(@, [result |-> out.result,
                                                      before |-> proc.disk,
                                                      after |-> out.disk,
                                                      effects |-> out.effects,
                                                      elapsed |->
                                                        ProcessRepoElapsed(proc.cfg,
                                                          proc.disk, proc.fault,
                                                          proc.cancelled, order,
                                                          discardOrder)])]
    /\ UNCHANGED <<mainVars, scan, load>>

ProcNext == ProcessRepoCall

SpecProc == ProcInit /\ [][ProcNext]_vars

\* ------------------------------------------- Scanner.FindRepos on its own
\* Directory names are sequences of characters, in the lexical order in
\* which filepath.WalkDir visits the entries of a directory.
DirNames == << <<"n">>, <<"p">>, <<"v", "n">> >>

\* a directory below the root is the sequence of the names leading to it
RECURSIVE DirsOfDepth(_)
DirsOfDepth(k) ==
    IF k = 0 THEN {<<>>}
    ELSE {Append(d, DirNames[i]) : d \in DirsOfDepth(k - 1), i \in DOMAIN DirNames}
AllDirs == UNION {DirsOfDepth(k) : k \in 0..MaxDepth}

\* the trees: the sets of at most MaxGitDirs directories that directly contain .git
RECURSIVE DirSets(_)
DirSets(k) ==
    IF k = 0 THEN {{}}
    ELSE DirSets(k - 1) \cup {t \cup {d} : t \in DirSets(k - 1), d \in AllDirs}
Trees == DirSets(MaxGitDirs)

\* the text of the root path
RootPaths == {<<"r">>, <<"n">>}

ScanConfigs == [Recursive : BOOLEAN, ExcludeDirs : SUBSET {<<"n">>, <<"v", "n">>}]

\* filepath.Join(rootPath, names...)
RECURSIVE JoinPath(_, _)
JoinPath(rootPath, dir) ==
    IF dir = <<>> THEN rootPath
    ELSE JoinPath(rootPath \o <<"/">> \o Head(dir), Tail(dir))

\* variant: a directory is excluded only when its name is an exclusion entry
ExcludedByName(cfg, path) == \E exclude \in cfg.ExcludeDirs : Base(path) = exclude

\* FindRepos: the walk function returns SkipDir for an excluded directory
Excluded(cfg, path) == \E exclude \in cfg.ExcludeDirs : HasSubstring(path, exclude)

IsPrefix(a, b) == Len(a) <= Len(b) /\ SubSeq(b, 1, Len(a)) = a

\* the directory exists in the tree: it holds .git or leads to a directory that does
DirExists(gitDirs, dir) == \E g \in gitDirs : IsPrefix(dir, g)

\* filepath.WalkDir with the walk function of FindRepos: the repositories
\* appended while walking dir and, from entry i on, its entries in lexical order
RECURSIVE Walk(_, _, _, _), WalkEntries(_, _, _, _, _)
\* variant: the walk descends below a repository whatever Recursive is
WalkAlwaysDescend(cfg, rootPath, gitDirs, dir) ==
    IF Excluded(cfg, JoinPath(rootPath, dir)) THEN <<>>
    ELSE IF dir \in gitDirs
       THEN <<dir>> \o WalkEntries(cfg, rootPath, gitDirs, dir, 1)
       ELSE WalkEntries(cfg, rootPath, gitDirs, dir, 1)

Walk(cfg, rootPath, gitDirs, dir) ==
    IF Excluded(cfg, JoinPath(rootPath, dir)) THEN <<>>
    ELSE IF dir \in gitDirs
       THEN IF ~cfg.Recursive
               THEN <<dir>>
               ELSE <<dir>> \o WalkEntries(cfg, rootPath, gitDirs, dir, 1)
       ELSE WalkEntries(cfg, rootPath, gitDirs, dir, 1)
WalkEntries(cfg, rootPath, gitDirs, dir, i) ==
    IF i > Len(DirNames) THEN <<>>
    ELSE LET child == Append(dir, DirNames[i]) IN
         (IF DirExists(gitDirs, child) THEN Walk(cfg, rootPath, gitDirs, child) ELSE <<>>)
            \o WalkEntries(cfg, rootPath, gitDirs, dir, i + 1)

\* Scanner.FindRepos without a filesystem error or cancellation
FindRepos(cfg, rootPath, gitDirs) == Walk(cfg, rootPath, gitDirs, <<>>)

\* GitRepo.Name: filepath.Base(path)
RepoName(rootPath, dir) == Base(JoinPath(rootPath, dir))

ScanInit ==
    /\ config = DefaultMain
    /\ pc = "unit"
    /\ Fresh
    /\ proc = ProcIdle
    /\ load = LoadIdle
    /\ \E cfg \in ScanConfigs, rootPath \in RootPaths, gitDirs \in Trees :
          scan = [cfg |-> cfg, rootPath |-> rootPath, gitDirs |-> gitDirs,
                  out |-> <<>>, done |-> FALSE]

\* one call of FindRepos on the tree
FindReposCall ==
    /\ pc = "unit"
    /\ ~scan.done
    /\ scan' = [scan EXCEPT !.out = FindRepos(scan.cfg, scan.rootPath, scan.gitDirs),
                            !.done = TRUE]
    /\ UNCHANGED <<mainVars, proc, load>>

ScanNext == FindReposCall

SpecScan == ScanInit /\ [][ScanNext]_vars

\* ---------------------------------------------- config.LoadConfig on its own
\* Strings are sequences of characters.
OperationFetch == <<"f", "e", "t", "c", "h">>
OperationPull == <<"p", "u", "l", "l">>
OperationScan == <<"s", "c", "a", "n">>

\* the values of the operation flag, key or environment variable
RawOperations ==
    {<<>>, <<" ", " ">>, OperationFetch, OperationPull, OperationScan,
     <<"F", "E", "T", "C", "H">>, <<"P", "u", "l", "l">>,
     <<" ", "s", "c", "a", "n", " ">>, <<" ", "S", "C", "A", "N">>,
     <<"p", "u", "s", "h">>, <<"s", "c", " ", "a", "n">>, <<"F", "E", "T">>}

\* the values of the export-scan flag: unset, or a file name
ExportScans == {<<>>, <<"o", ".", "m", "d">>}

\* types.Config as viper.Unmarshal fills it
RawConfigs ==
    [Workers : -1..MaxWorkers, Timeout : -1..1, Operation : RawOperations,
     ExportScan : ExportScans]

UpperCase == <<"F", "E", "T", "C", "H", "P", "U", "L", "S", "A", "N">>
LowerCase == <<"f", "e", "t", "c", "h", "p", "u", "l", "s", "a", "n">>

\* strings.ToLower
ToLower(str) ==
    [k \in DOMAIN str |->
        IF \E j \in DOMAIN UpperCase : UpperCase[j] = str[k]
           THEN LowerCase[CHOOSE j \in DOMAIN UpperCase : UpperCase[j] = str[k]]
           ELSE str[k]]

\* strings.TrimSpace: leading and trailing white space removed
RECURSIVE TrimLeft(_), TrimRight(_)
TrimLeft(str) ==
    IF str # <<>> /\ Head(str) = " " THEN TrimLeft(Tail(str)) ELSE str
TrimRight(str) ==
    IF str # <<>> /\ str[Len(str)] = " "
       THEN TrimRight(SubSeq(str, 1, Len(str) - 1))
       ELSE str
TrimSpace(str) == TrimRight(TrimLeft(str))

ErrWorkers == <<"workers must be greater than 0">>
ErrTimeout == <<"timeout must be non-negative">>
ErrOperation == <<"invalid operation">>
ErrExportScan == <<"export-scan requires operation 'scan'">>

\* variant: the operation is compared as given, without trimming or lower-casing
ValidateConfigAsGiven(cfg) ==
    IF cfg.Workers <= 0 THEN [err |-> ErrWorkers, config |-> cfg]
    ELSE IF cfg.Timeout < 0 THEN [err |-> ErrTimeout, config |-> cfg]
    ELSE LET operation == cfg.Operation
             c1 == IF operation = <<>>
                      THEN [cfg EXCEPT !.Operation = OperationFetch]
                      ELSE [cfg EXCEPT !.Operation = operation]
         IN IF c1.Operation \notin {OperationFetch, OperationPull, OperationScan}
               THEN [err |-> ErrOperation, config |-> c1]
            ELSE IF c1.ExportScan # <<>> /\ c1.Operation # OperationScan
               THEN [err |-> ErrExportScan, config |-> c1]
            ELSE [err |-> NoError, config |-> c1]

\* config.ValidateConfig: the error it returns and the config as it leaves it
ValidateConfig(cfg) ==
    IF cfg.Workers <= 0 THEN [err |-> ErrWorkers, config |-> cfg]
    ELSE IF cfg.Timeout < 0 THEN [err |-> ErrTimeout, config |-> cfg]
    ELSE LET operation == ToLower(TrimSpace(cfg.Operation))
             c1 == IF operation = <<>>
                      THEN [cfg EXCEPT !.Operation = OperationFetch]
                      ELSE [cfg EXCEPT !.Operation = operation]
         IN IF c1.Operation \notin {OperationFetch, OperationPull, OperationScan}
               THEN [err |-> ErrOperation, config |-> c1]
            ELSE IF c1.ExportScan # <<>> /\ c1.Operation # OperationScan
               THEN [err |-> ErrExportScan, config |-> c1]
            ELSE [err |-> NoError, config |-> c1]

\* config.LoadConfig after viper.Unmarshal: no config is returned with an error
LoadConfig(cfg) ==
    LET v == ValidateConfig(cfg) IN
    IF v.err # NoError THEN [err |-> v.err, config |-> <<>>] ELSE v

LoadInit ==
    /\ config = DefaultMain
    /\ pc = "unit"
    /\ Fresh
    /\ proc = ProcIdle
    /\ scan = ScanIdle
    /\ \E cfg \in RawConfigs : load = [LoadIdle EXCEPT !.input = cfg]

\* one call of LoadConfig
LoadConfigCall ==
    /\ pc = "unit"
    /\ ~load.done
    /\ LET out == LoadConfig(load.input) IN
          load' = [load EXCEPT !.config = out.config, !.err = out.err, !.done = TRUE]
    /\ UNCHANGED <<mainVars, proc, scan>>

LoadNext == LoadConfigCall

SpecLoad == LoadInit /\ [][LoadNext]_vars

\* ================================================================ claims
Min(a, b) == IF a <= b THEN a ELSE b
Max(a, b) == IF a >= b THEN a ELSE b
Ids(results) == {results[k].id : k \in DOMAIN results}

\* the operations dispatched by the Model whose message Update has not handled
Outstanding ==
    Cardinality(cmds) + Cardinality({msg \in msgs : msg.type = "repoProcessedMsg"})

\* Execute ran processReposConcurrently to its end
PlainCompleted == pc = "returned" /\ N > 0 /\ execErr \in {"nil", "failed"}

\* the Model reached Complete after a non-empty reposFoundMsg
ModelCompleted == m.done /\ m.phase = "complete" /\ Len(m.repos) > 0

\* C1: with Workers >= 1, at most Workers ProcessRepo invocations of
\* processReposConcurrently are started and not returned, so an invocation
\* beyond the first Workers starts only after an earlier one has returned.
C1_BoundedInFlight ==
    config.Workers >= 1 =>
        /\ Cardinality(InFlight) <= config.Workers
        /\ submitted - Cardinality({i \in 1..N : wstate[i] \in {"select", "returned"}})
              <= config.Workers

C1_Witness ==
    /\ config.Workers = 2 /\ N = 3 /\ submitted = 3
    /\ Cardinality(InFlight) = 2
    /\ wstate[1] = "returned"

\* C2: in every state of the Model, the operations dispatched and not yet
\* handled (nextIndex - processed) are at most max(Workers, 1).
C2_ModelWindowBound ==
    /\ Outstanding = m.nextIndex - m.processed
    /\ m.nextIndex - m.processed <= Max(config.Workers, 1)

C2_Witness ==
    /\ pc = "tui" /\ config.Workers = 2
    /\ m.processed >= 1
    /\ m.nextIndex - m.processed = 2

\* C3 as stated: while processing, the outstanding operations are exactly
\* min(concurrencyLimit, number of descriptors not yet dispatched).
C3_Original ==
    (m.phase = "processing" /\ config.Workers >= 1) =>
        Outstanding = Min(config.Workers, Len(m.repos) - m.nextIndex)

\* C3 amended: while processing, the outstanding operations are exactly
\* min(max(concurrencyLimit, 1), number of descriptors whose result is not yet
\* recorded), that is len(repos) - processed.
C3_WindowKeptFull ==
    m.phase = "processing" =>
        Outstanding = Min(Max(config.Workers, 1), Len(m.repos) - m.processed)

C3_Witness ==
    /\ m.phase = "processing" /\ config.Workers = 2
    /\ Len(m.repos) = 3 /\ m.nextIndex = 3 /\ m.processed = 1
    /\ Outstanding = 2

\* C4: when the context is never cancelled, processReposConcurrently invokes
\* ProcessRepo exactly once per descriptor and displayResults receives
\* len(repos) results, one per descriptor.
C4_ExactlyOncePlain ==
    /\ pc \in {"submit", "display"} => \A i \in 1..MaxRepos : invoked[i] <= 1
    /\ (PlainCompleted /\ ~ctxDone) =>
          /\ \A i \in 1..N : invoked[i] = 1
          /\ Len(allResults) = N
          /\ Ids(allResults) = 1..N

C4_Witness ==
    /\ PlainCompleted /\ ~ctxDone /\ N = 3 /\ config.Workers = 2
    /\ allResults[1].id = 2 /\ allResults[2].id = 3

\* C5: a run of the Model that reaches Complete after a non-empty
\* reposFoundMsg dispatched every index exactly once and has
\* len(results) = processed = len(repos), one result per descriptor.
C5_ExactlyOnceModel ==
    /\ pc = "tui" => \A i \in 1..MaxRepos : invoked[i] <= 1
    /\ ModelCompleted =>
          /\ \A i \in 1..Len(m.repos) : invoked[i] = 1
          /\ Len(m.results) = m.processed
          /\ m.processed = Len(m.repos)
          /\ Ids(m.results) = 1..Len(m.repos)

C5_Witness ==
    /\ ModelCompleted /\ Len(m.repos) = 3 /\ config.Workers = 2
    /\ m.results[1].id = 2 /\ m.results[2].id = 3

\* C6: a result with an error never cancels the context and never makes a
\* worker return an error (the group fails only after the caller's context
\* is done); while the context is not cancelled every result is the one its
\* own repository gives, and every descriptor still produces its result.
C6_FailureIsolation ==
    /\ gErr => ctxDone
    /\ (gctxDone /\ ~chanClosed) => ctxDone
    /\ ~ctxDone =>
          /\ \A k \in DOMAIN resultChan :
                resultChan[k].Error = ProcessRepo(config, repos[resultChan[k].id], FALSE)
          /\ \A k \in DOMAIN allResults :
                allResults[k].Error = ProcessRepo(config, repos[allResults[k].id], FALSE)
    /\ (PlainCompleted /\ ~ctxDone) => Ids(allResults) = 1..N
    /\ ~mctxDone =>
          \A k \in DOMAIN m.results :
              m.results[k].Error = ProcessRepo(config, m.repos[m.results[k].id], FALSE)
    /\ ModelCompleted => Ids(m.results) = 1..Len(m.repos)

C6_Witness ==
    /\ PlainCompleted /\ ~ctxDone /\ N = 3
    /\ allResults[1].Error = ErrOpen
    /\ allResults[2].Error = NoError
    /\ allResults[3].Error = NoError

\* C7: whenever displayResults returns, the total it reports equals
\* successful + failed + skipped, also after a cancellation.
C7_CountInvariant ==
    PlainCompleted => total = successful + failed + skipped

\* C8: once the context of processReposConcurrently is done, no ProcessRepo
\* invocation is started for a descriptor not yet dispatched.
C8_CancelStopsSubmission ==
    [][ctxDone => invoked' = invoked]_vars

\* C9: the quit key cancels the Model's context, returns the quit command and
\* leaves the Model's fields unchanged, and no Update handled after it
\* dispatches a further operation (stated for a validated config, Workers >= 1).
C9_QuitStopsDispatch ==
    [][config.Workers >= 1 =>
          /\ (quitKeyed' /\ ~quitKeyed) => (mctxDone' /\ quitPending' /\ m' = m)
          /\ quitKeyed => invoked' = invoked]_vars

\* C10: every result whose ProcessRepo invocation returned and whose worker
\* has returned is in the channel or was received by displayResults.
C10_NoResultDropped ==
    \A i \in 1..N :
        wstate[i] = "returned" => i \in Ids(resultChan) \cup Ids(allResults)

\* some result of the sequence is counted as failed
AnyFailed(results) == \E k \in DOMAIN results : Classify(results[k]) = "failed"

\* C11: given a successful scan, Execute returns a non-nil error if and only
\* if at least one repository's outcome is Failed, in plain mode and in TUI
\* mode alike (stated for runs that processed every repository, Workers >= 1).
C11_RunFailsIffRepoFailed ==
    (pc = "returned" /\ config.Workers >= 1) =>
        /\ (PlainCompleted /\ ~ctxDone) => (execErr # "nil" <=> AnyFailed(allResults))
        /\ (ModelCompleted /\ ~mctxDone) => (execErr # "nil" <=> AnyFailed(m.results))

\* FindRepos returned an error to the front-end that called it
ScanFailed == execErr = "scan" \/ m.err = "scan"

\* C12: if FindRepos returns an error, Execute returns a non-nil error, in
\* plain mode and in TUI mode alike (stated for runs without a quit key).
C12_ScanErrorPropagates ==
    (pc = "returned" /\ ScanFailed /\ ~quitKeyed) => execErr # "nil"

\* the elements of a sequence
Range(seq) == {seq[k] : k \in DOMAIN seq}

\* the run got past the first analysis and the discard step
ReachedGate(run) ==
    /\ proc.fault \notin {"analyze", "openDiscard"}
    /\ ~IsDiscardError(run.result.Error)

\* C13: with skipDirty, a repository whose tree is still not clean after the
\* discard step is Skipped without fetch or pull when the operation is fetch
\* or pull (also in a dry run); when the operation is scan it is never
\* Skipped and a result without error lists the modified files.
C13_DirtyGate ==
    \A k \in DOMAIN proc.runs :
        LET run == proc.runs[k] IN
        (proc.cfg.SkipDirty /\ ReachedGate(run) /\ ModifiedSet(run.after) # {}) =>
            /\ proc.cfg.Operation \in {"fetch", "pull"} =>
                  /\ run.result.Error = ErrSkipped
                  /\ Classify(run.result) = "skipped"
                  /\ Fetch \notin run.effects /\ Pull \notin run.effects
                  /\ run.after.head = run.before.head
            /\ proc.cfg.Operation = "scan" =>
                  /\ Classify(run.result) # "skipped"
                  /\ ~run.result.Clean
                  /\ run.result.Error = NoError =>
                        Range(run.result.ModifiedFiles) = ModifiedSet(run.after)

C13_Witness ==
    /\ Len(proc.runs) >= 1
    /\ proc.cfg.SkipDirty /\ proc.cfg.DryRun /\ proc.cfg.Operation = "pull"
    /\ proc.fault = "none"
    /\ Discard(FileLog) \in proc.runs[1].effects
    /\ ModifiedSet(proc.runs[1].after) = {FileTxt}
    /\ proc.runs[1].result.Error = ErrSkipped

\* some pattern matches the base name of the file, as a glob or exactly
BaseMatches(patterns, file) ==
    \E k \in DOMAIN patterns :
        GlobMatch(patterns[k], Base(file)) \/ Base(file) = patterns[k]

\* what C14 promises of a run
Proceeds(run) ==
    /\ ModifiedSet(run.after) = {}
    /\ run.result.Clean
    /\ Classify(run.result) # "skipped"
    /\ (proc.cfg.Operation = "pull" /\ ~proc.cfg.DryRun) => Pull \in run.effects

C15_DryRunIdempotent ==
    (proc.cfg # <<>> /\ proc.cfg.DryRun /\ ModifiedSet(proc.disk0) = {}
        /\ proc.fault # "analyze") =>
        \A k \in DOMAIN proc.runs :
            /\ proc.runs[k].result.Error = NoError
            /\ proc.runs[k].result = proc.runs[1].result
            /\ proc.runs[k].after = proc.disk0
            /\ proc.runs[k].effects = {}

C15_Witness ==
    /\ Len(proc.runs) >= 2
    /\ proc.cfg.DryRun /\ proc.cfg.Operation = "pull" /\ proc.disk0.behind
    /\ ModifiedSet(proc.disk0) = {}
    /\ proc.fault = "none"
    /\ proc.runs[2].result.Error = NoError

\* C16: in a dry run ProcessRepo executes no discard, fetch or pull and
\* leaves the repository as it was, in any state and for any configuration.
C16_DryRunNoMutation ==
    \A k \in DOMAIN proc.runs :
        proc.cfg.DryRun =>
            /\ proc.runs[k].effects = {}
            /\ proc.runs[k].after = proc.runs[k].before

\* C17: with operation scan ProcessRepo executes no discard, fetch or pull
\* and leaves the repository as it was, for any configuration.
C17_ScanNoMutation ==
    \A k \in DOMAIN proc.runs :
        proc.cfg.Operation = "scan" =>
            /\ proc.runs[k].effects = {}
            /\ proc.runs[k].after = proc.runs[k].before

\* the path of the directory contains no exclusion token
TokenFree(dir) ==
    \A exclude \in scan.cfg.ExcludeDirs :
        ~HasSubstring(JoinPath(scan.rootPath, dir), exclude)

ProperPrefix(a, b) == Len(a) < Len(b) /\ SubSeq(b, 1, Len(a)) = a

\* C18: FindRepos returns no descriptor whose path contains an exclusion
\* token; with recursive it returns every directory that holds .git and whose
\* path contains no token; for project/.git, node_modules/.git, vendor/.git
\* and these two names excluded it returns exactly project.
C18_Exclusion ==
    scan.done =>
        /\ \A k \in DOMAIN scan.out : TokenFree(scan.out[k])
        /\ Range(scan.out) \subseteq scan.gitDirs
        /\ Len(scan.out) = Cardinality(Range(scan.out))
        /\ scan.cfg.Recursive =>
              Range(scan.out) = {g \in scan.gitDirs : TokenFree(g)}
        /\ (/\ scan.gitDirs = {<<<<"p">>>>, <<<<"n">>>>, <<<<"v", "n">>>>}
            /\ scan.cfg.ExcludeDirs = {<<"n">>, <<"v", "n">>}
            /\ scan.rootPath = <<"r">>) =>
              /\ scan.out = << <<<<"p">>>> >>
              /\ RepoName(scan.rootPath, scan.out[1]) = <<"p">>

C18_Witness ==
    /\ scan.done
    /\ scan.cfg.Recursive
    /\ scan.gitDirs = {<<<<"p">>>>, <<<<"n">>>>, <<<<"v", "n">>>>}
    /\ scan.cfg.ExcludeDirs = {<<"n">>}
    /\ scan.rootPath = <<"r">>
    /\ scan.out = << <<<<"p">>>> >>

\* C19: without recursive, FindRepos does not descend below a repository: no
\* returned descriptor lies below another one, and exactly the repositories
\* with no repository above them (and no token in their path) are returned;
\* with recursive nested repositories are returned as well.
C19_NonRecursive ==
    scan.done =>
        /\ ~scan.cfg.Recursive =>
              /\ \A a, b \in Range(scan.out) : ~ProperPrefix(a, b)
              /\ Range(scan.out) =
                    {g \in scan.gitDirs :
                        TokenFree(g) /\ \A a \in scan.gitDirs : ~ProperPrefix(a, g)}
        /\ scan.cfg.Recursive =>
              \A g \in scan.gitDirs : TokenFree(g) => g \in Range(scan.out)
        /\ (scan.gitDirs = {<<<<"p">>>>, <<<<"p">>, <<"n">>>>} /\ scan.cfg.ExcludeDirs = {}) =>
              Len(scan.out) = IF scan.cfg.Recursive THEN 2 ELSE 1

C19_Witness ==
    /\ scan.done
    /\ ~scan.cfg.Recursive
    /\ scan.cfg.ExcludeDirs = {}
    /\ scan.gitDirs = {<<<<"p">>>>, <<<<"p">>, <<"n">>>>, <<<<"v", "n">>>>}
    /\ scan.out = << <<<<"p">>>>, <<<<"v", "n">>>> >>

\* C20: without recursive, FindRepos returns no descriptor that lies two or
\* more levels below the root.
C20_OnlyDirectSubdirectories ==
    (scan.done /\ ~scan.cfg.Recursive) =>
        \A k \in DOMAIN scan.out : Len(scan.out[k]) <= 1

\* C21: when the context given to Execute is cancelled, every ProcessRepo
\* invocation in flight observes a cancelled context, in plain mode and in TUI
\* mode alike: an invocation returning after the cancellation returns what
\* ProcessRepo gives under a cancelled context (stated for Workers >= 1).
C21_CallerContextObserved ==
    [][(config.Workers >= 1 /\ ctxDone) =>
          /\ \A i \in 1..N :
                (wstate[i] = "running" /\ wstate'[i] = "select") =>
                    produced'[i] = ProcessRepo(config, repos[i], TRUE)
          /\ \A msg \in msgs' \ msgs :
                msg.type = "repoProcessedMsg" =>
                    msg.result.Error = ProcessRepo(config, m.repos[msg.result.id], TRUE)]_vars

\* the operation of the input after trimming and lower-casing
Normalised(cfg) == ToLower(TrimSpace(cfg.Operation))

\* the conditions under which C22 says the configuration is rejected
Rejected(cfg) ==
    \/ cfg.Workers <= 0
    \/ cfg.Timeout < 0
    \/ Normalised(cfg) # <<>>
          /\ Normalised(cfg) \notin {OperationFetch, OperationPull, OperationScan}
    \/ cfg.ExportScan # <<>> /\ Normalised(cfg) # OperationScan

C23_EmptyListCompletes ==
    [][(\E msg \in msgs \ msgs' : msg.type = "reposFoundMsg" /\ msg.repos = <<>>) =>
          /\ m'.done /\ m'.phase = "complete"
          /\ ~m'.scanning /\ m'.repos = <<>> /\ m'.nextIndex = 0
          /\ quitPending'
          /\ cmds' = cmds /\ invoked' = invoked
          /\ msgs' \subseteq msgs]_vars

C23_Witness ==
    /\ m.done /\ m.phase = "complete"
    /\ m.repos = <<>> /\ ~m.scanning /\ m.processing
    /\ quitPending /\ ~quitKeyed
    /\ msgs = {} /\ cmds = {}

\* the discard step of the run was entered and discardFiles returned no error
DiscardRan(run) ==
    /\ Len(proc.cfg.DiscardFiles) > 0
    /\ ModifiedSet(run.before) # {}
    /\ proc.fault \notin {"analyze", "openDiscard"}
    /\ ~IsDiscardError(run.result.Error)

\* C24: when the discard ran and the analysis after it fails, the result is
\* Failed with the analysis error: it is not Skipped and no fetch or pull is
\* dispatched.
C24_ReanalysisFailureStops ==
    \A k \in DOMAIN proc.runs :
        LET run == proc.runs[k] IN
        (DiscardRan(run) /\ proc.fault = "reanalyze") =>
            /\ run.result.Error = ErrOpen
            /\ Classify(run.result) = "failed"
            /\ Fetch \notin run.effects /\ Pull \notin run.effects

\* C25: when the first analysis fails, the result is Failed with that error
\* and nothing was discarded, skipped, fetched or pulled; every call gives one
\* result, and a call in which a backend call failed gives a result with an
\* error.
C25_AnalysisFailureStops ==
    \A k \in DOMAIN proc.runs :
        LET run == proc.runs[k] IN
        /\ proc.fault = "analyze" =>
              /\ run.result.Error = ErrOpen
              /\ Classify(run.result) = "failed"
              /\ run.effects = {}
              /\ run.after = run.before
        /\ (proc.fault = "remote" /\ (Fetch \in run.effects \/ Pull \in run.effects)) =>
              Classify(run.result) = "failed"
        /\ (proc.fault = "openDiscard" /\ Len(proc.cfg.DiscardFiles) > 0
                /\ ModifiedSet(run.before) # {}) =>
              run.result.Error = ErrOpenDiscard
        /\ (proc.fault = "openDispatch" /\ run.result.Error = NoError) =>
              (proc.cfg.DryRun \/ run.effects = {})

C25_Witness ==
    /\ Len(proc.runs) >= 1
    /\ proc.fault = "analyze"
    /\ proc.cfg.Operation = "pull" /\ ~proc.cfg.DryRun /\ proc.cfg.SkipDirty
    /\ Len(proc.cfg.DiscardFiles) > 0
    /\ ModifiedSet(proc.disk0) = ProcFiles
    /\ proc.runs[1].result.Error = ErrOpen
    /\ proc.runs[1].effects = {}

\* discardFiles fails in the run: a file it has to discard is not in HEAD
DiscardFails(run) ==
    /\ Len(proc.cfg.DiscardFiles) > 0
    /\ proc.fault \notin {"analyze", "openDiscard"}
    /\ \E f \in ModifiedSet(run.before) :
          ShouldDiscard(proc.cfg.DiscardFiles, f) /\ run.before.files[f] = "untracked"

\* C26: when discarding a matching file fails, the result is Failed with the
\* discard error, the repository is not analysed again (the result keeps the
\* cleanliness and the modified files of the first analysis) and no fetch or
\* pull is attempted.
C26_DiscardFailureStops ==
    \A k \in DOMAIN proc.runs :
        LET run == proc.runs[k] IN
        DiscardFails(run) =>
            /\ IsDiscardError(run.result.Error)
            /\ run.result.Error # ErrSkipped
            /\ ~run.result.Clean
            /\ Range(run.result.ModifiedFiles) = ModifiedSet(run.before)
            /\ Fetch \notin run.effects /\ Pull \notin run.effects

C26_Witness ==
    /\ Len(proc.runs) >= 1
    /\ proc.cfg.Operation = "fetch" /\ ~proc.cfg.DryRun /\ ~proc.cfg.SkipDirty
    /\ proc.fault = "none"
    /\ proc.disk0.files[FileLog] = "modified"
    /\ proc.disk0.files[FileTxt] = "untracked"
    /\ proc.runs[1].effects = {Discard(FileLog), Discard(FileTxt)}
    /\ proc.runs[1].after.files[FileLog] = "unmodified"
    /\ proc.runs[1].result.Error = ErrDiscard(FileTxt)

\* the descriptors for which an operation was started
StartedSet == {i \in 1..MaxRepos : invoked[i] >= 1}

\* C27: in both front-ends the operations are started in discovery order: the
\* descriptors started so far are always the first ones of the list (the
\* first submitted of processReposConcurrently, the first nextIndex of the
\* Model), and a started descriptor stays started.
C27_DiscoveryOrder ==
    [][/\ StartedSet \subseteq StartedSet'
       /\ StartedSet' = 1..Cardinality(StartedSet')
       /\ pc' \in {"submit", "display"} => StartedSet' = 1..submitted'
       /\ pc' = "tui" => StartedSet' = 1..m'.nextIndex]_vars

C27_Witness ==
    /\ pc = "tui" /\ config.Workers = 2 /\ Len(m.repos) = 3
    /\ StartedSet = 1..3
    /\ 0 \in cmds
    /\ Len(m.results) = 1 /\ m.results[1].id = 2

\* C28: the result channel is closed only when every descriptor was submitted
\* and every worker has returned; once closed it stays closed, nothing is
\* sent on it and no worker is left that could send; it is closed when
\* displayResults returns. Cancellation included.
C28_CloseAfterWorkers ==
    [][/\ chanClosed' =>
             /\ submitted' = N
             /\ \A i \in 1..N : wstate'[i] = "returned"
       /\ chanClosed =>
             /\ chanClosed'
             /\ Len(resultChan') <= Len(resultChan)
             /\ wstate' = wstate
       /\ (pc' = "returned" /\ N > 0 /\ execErr' # "scan") => chanClosed']_vars

C28_Witness ==
    /\ chanClosed /\ ctxDone /\ N = 3 /\ config.Workers = 2
    /\ Len(resultChan) = 1
    /\ Len(allResults) = 1
    /\ \A i \in 1..N : wstate[i] = "returned"

\* C29: with Workers >= 1 and every ProcessRepo call returning,
\* processReposConcurrently terminates: a worker that has its result never
\* finds the channel full, and from the submission loop on Execute eventually
\* returns (the channel closed and drained), cancelled or not.
C29_PlainTerminates ==
    /\ [](\A i \in 1..N : wstate[i] = "select" => Len(resultChan) < Capacity(N))
    /\ ((pc = "submit" /\ config.Workers >= 1) ~>
            (pc = "returned" /\ chanClosed /\ resultChan = <<>>))

C29_Witness ==
    /\ pc = "returned" /\ chanClosed /\ resultChan = <<>>
    /\ config.Workers = 1 /\ N = 3
    /\ Len(allResults) = 3
    /\ allResults[3].id = 3

\* C30: when no quit key is pressed (and the program runs) the Model
\* eventually is Complete with the quit command issued, for every descriptor
\* list and every Workers value; whenever it is Complete, processed equals
\* len(repos).
C30_ModelCompletes ==
    /\ [](m.done => m.processed = Len(m.repos))
    /\ (pc = "tui" ~>
            \/ m.done /\ m.phase = "complete" /\ (quitPending \/ pc = "returned")
            \/ quitKeyed
            \/ pc = "plain_scan")

C30_Witness ==
    /\ m.done /\ m.phase = "complete" /\ ~quitKeyed
    /\ config.Workers = 0
    /\ Len(m.repos) = 3 /\ m.processed = 3
    /\ pc = "returned"

\* the place of a phase in Initializing, Scanning, Processing, Complete
PhaseRank(phase) ==
    CASE phase = "initializing" -> 0
      [] phase = "scanning" -> 1
      [] phase = "processing" -> 2
      [] phase = "complete" -> 3

\* the phase never moves backwards and nothing changes phase or done once
\* done is true
PhaseForward ==
    [][/\ PhaseRank(m'.phase) >= PhaseRank(m.phase)
       /\ m.done => (m'.done /\ m'.phase = m.phase)]_vars

\* C31: the phase only moves forward along Initializing, Scanning,
\* Processing, Complete; starting the loop (Init issues the scan request)
\* moves it from Initializing to Scanning; once done is true no message
\* changes phase or done.
C31_PhaseOrder ==
    [][/\ PhaseRank(m'.phase) >= PhaseRank(m.phase)
       /\ m.done => (m'.done /\ m'.phase = m.phase)
       /\ (pc = "start" /\ pc' = "tui") =>
             (m.phase = "initializing" /\ scanCmd' /\ m'.phase = "scanning")]_vars

\* C32: when FindRepos returns an error no descriptor of its partial list is
\* used: no list is stored and ProcessRepo is invoked for no descriptor, in
\* plain mode and in TUI mode.
C32_NoPartialList ==
    /\ execErr = "scan" =>
          /\ repos = <<>>
          /\ \A i \in 1..MaxRepos : invoked[i] = 0
    /\ (m.err = "scan" \/ ProcessingDoneMsg("scan") \in msgs) =>
          /\ m.repos = <<>> /\ cmds = {}
          /\ \A i \in 1..MaxRepos : invoked[i] = 0

C32_Witness ==
    /\ pc = "returned" /\ execErr = "scan"
    /\ config.PlainMode /\ ctxDone
    /\ repos = <<>>

\* C33: once the deadline of the Model's context has elapsed, the Update that
\* handles a repoProcessedMsg dispatches no operation for a descriptor not yet
\* dispatched, and recorded results are kept (stated for Workers >= 1 and
\* runs without a quit key).
C33_DeadlineStopsDispatch ==
    [][(/\ config.Workers >= 1 /\ mctxDone /\ ~quitKeyed /\ ~quitKeyed'
        /\ \E msg \in msgs \ msgs' : msg.type = "repoProcessedMsg") =>
          /\ invoked' = invoked
          /\ m'.nextIndex = m.nextIndex
          /\ SubSeq(m'.results, 1, Len(m.results)) = m.results]_vars

\* the result of the run was produced by the dirty gate
GateFired(run) ==
    /\ ReachedGate(run)
    /\ proc.cfg.SkipDirty /\ ~run.result.Clean /\ proc.cfg.Operation # "scan"

\* C34: a result is counted as skipped exactly when the dirty gate produced
\* it; a result with the error of an analysis, discard, fetch, pull or
\* cancellation failure is counted as failed.
C34_SkippedIffDirtyGate ==
    \A k \in DOMAIN proc.runs :
        LET run == proc.runs[k] IN
        /\ Classify(run.result) = "skipped" <=> GateFired(run)
        /\ (run.result.Error # NoError /\ ~GateFired(run)) =>
              Classify(run.result) = "failed"

\* C35: the Duration of the result is the time from the start of ProcessRepo
\* to its return (analysis, discard, re-analysis and fetch or pull), for
\* every outcome.
C35_DurationEndToEnd ==
    \A k \in DOMAIN proc.runs :
        proc.runs[k].result.Duration = proc.runs[k].elapsed

\* the results agree in every field but Duration
SameButDuration(a, b) == [a EXCEPT !.Duration = 0] = [b EXCEPT !.Duration = 0]

\* C36: two ProcessRepo runs on the same repository state with the same
\* configuration give results equal in every field but Duration, the order of
\* ModifiedFiles included.
C36_Deterministic ==
    \A k, l \in DOMAIN proc.runs :
        proc.runs[k].before = proc.runs[l].before =>
            SameButDuration(proc.runs[k].result, proc.runs[l].result)

\* the (descriptor, outcome) pairs a front-end has to collect for the list
Expected(list) ==
    {Result(i, ProcessRepo(config, list[i], FALSE)) : i \in 1..Len(list)}

\* C37: for the same descriptor list and config with Workers >= 1, and
\* without cancellation, processReposConcurrently with displayResults and the
\* Model invoke ProcessRepo on the same descriptors (all of the list, once
\* each) and collect the same set of (descriptor, outcome) results.
C37_FrontEndsAgree ==
    config.Workers >= 1 =>
        /\ (PlainCompleted /\ ~ctxDone) =>
              /\ StartedSet = 1..N
              /\ Range(allResults) = Expected(repos)
        /\ (ModelCompleted /\ ~mctxDone) =>
              /\ StartedSet = 1..Len(m.repos)
              /\ Range(m.results) = Expected(m.repos)

C37_Witness ==
    /\ ModelCompleted /\ ~mctxDone /\ config.Workers = 2
    /\ m.repos = <<"dirty", "broken", "clean">>
    /\ m.results[1].id = 2
    /\ Range(m.results) =
          {Result(1, ErrSkipped), Result(2, ErrOpen), Result(3, NoError)}

\* C38: while the Model is processing, the operations in flight are exactly
\* min(max(Workers, 1), len(repos) - processed), and
\* processed <= nextIndex <= len(repos) in every state.
C38_WindowAndBounds ==
    /\ m.processed <= m.nextIndex
    /\ m.nextIndex <= Len(m.repos)
    /\ (m.phase = "processing" /\ ~m.done) =>
          /\ m.nextIndex - m.processed =
                Min(Max(config.Workers, 1), Len(m.repos) - m.processed)
          /\ Outstanding = m.nextIndex - m.processed

C38_Witness ==
    /\ m.phase = "processing" /\ ~m.done /\ config.Workers = 2
    /\ Len(m.repos) = 3 /\ m.processed = 2 /\ m.nextIndex = 3
    /\ Outstanding = 1

\* C39: at most one of scanning, processing and done is true in every state
\* of the Model; done implies neither processing nor scanning.
C39_ExclusiveFlags ==
    /\ ~(m.scanning /\ m.processing)
    /\ m.done => (~m.processing /\ ~m.scanning)

\* the names of the repositories found below the root
Names(rootPath, out) == {RepoName(rootPath, out[k]) : k \in {j \in DOMAIN out : out[j] # <<>>}}

\* C40: the names FindRepos returns for a tree do not depend on the text of
\* the root path: the scan of the same tree under any other root gives the
\* same names.
C40_RootIndependent ==
    scan.done =>
        \A rootPath \in RootPaths :
            Names(rootPath, FindRepos(scan.cfg, rootPath, scan.gitDirs))
                = Names(scan.rootPath, scan.out)

====
